---- MODULE Spec2Model ----
(***************************************************************************)
(* A model of the forecasting pipeline of khushinvyas/MLOPS:               *)
(*   src/src/preprocess.py  load_raw_file, create_lagged_features,         *)
(*                          preprocess_data and the __main__ block         *)
(*   src/src/train.py       get_model_instance, train_model, __main__      *)
(* The stages are separate process invocations that communicate through    *)
(* files, so every stage is one action and the files are the state.        *)
(***************************************************************************)
EXTENDS Integers, Sequences, FiniteSets, TLC

VARIABLES
    rawFile,     \* data/raw/household_power_consumption.* as found on disk
    loadOut,     \* outcome of load_raw_file: returned table or raised exception
    prepared,    \* the prepared CSV handed to preprocess_data (input_path)
    params,      \* params.yaml as loaded by load_params
    pc,          \* position of the preprocessing stage: "start" or "done"
    df,          \* preprocess_data's local df after cleaning + calendar features
    full_df,     \* preprocess_data's local full_df after concat + dropna
    processed,   \* data/processed: the four persisted partitions
    modelsDir,   \* models/: file name -> what was dumped there
    lastRun      \* outcome of the last run of the training stage

vars == <<rawFile, loadOut, prepared, params, pc, df, full_df, processed,
          modelsDir, lastRun>>

----------------------------------------------------------------------------
(* Bounds and input domains *)

MaxRows == 3          \* longest table enumerated

\* Encodings of the values pandas keeps in a cell.
NaN == -1             \* missing float / NaT-derived calendar value
NonNumeric == -2      \* a string such as "?" that pd.to_numeric cannot parse
NaT == -1             \* missing datetime index entry

NumericValues == {1, 2}
RawValues == NumericValues \cup {NaN, NonNumeric}
\* Timestamps are hours after the epoch; two of them give sorted, unsorted
\* and repeated index entries.
Times == {1, 2}
IndexValues == Times \cup {NaT}

RawColumns == {"Global_active_power"}
CalendarColumns == {"hour_of_day", "day_of_week", "month", "year"}
AllColumns == RawColumns \cup CalendarColumns

\* A table is a sequence of rows; a row has its index entry and its cells.
PreparedRows == [datetime : IndexValues, vals : [RawColumns -> RawValues]]
PreparedTables == UNION {[1..n -> PreparedRows] : n \in 1..MaxRows}

\* test_split_ratio as an exact fraction num/den (binary fractions, so that
\* the float product len * ratio of the code is exact).
Ratios == {<<1, 4>>, <<1, 2>>, <<1, 1>>}
FeatureChoices == { <<>>,
                    <<"Global_active_power">>,
                    <<"hour_of_day">>,
                    <<"Global_active_power", "hour_of_day">> }
TargetChoices == {"Global_active_power"}

----------------------------------------------------------------------------
(* Helpers on sequences *)

Range(s) == {s[i] : i \in DOMAIN s}

\* Python's normalisation of a slice bound against a length n.
PySliceBound(i, n) ==
    IF i < 0 THEN (IF n + i < 0 THEN 0 ELSE n + i)
             ELSE (IF i > n THEN n ELSE i)

\* table.iloc[:stop]
ILocUpTo(s, stop) == SubSeq(s, 1, PySliceBound(stop, Len(s)))
\* table.iloc[start:]
ILocFrom(s, start) == SubSeq(s, PySliceBound(start, Len(s)) + 1, Len(s))

----------------------------------------------------------------------------
(* preprocess_data, lines 21-33: cleaning and calendar features *)

\* df[col].dtype == 'object': read_csv leaves a column as strings when some
\* cell is not a number.
IsObjectColumn(t, col) == \E i \in DOMAIN t : t[i].vals[col] = NonNumeric

\* pd.to_numeric(..., errors='coerce') on one cell
ToNumeric(v) == IF v = NonNumeric THEN NaN ELSE v

CoerceColumns(t) ==
    [i \in DOMAIN t |->
        [t[i] EXCEPT !.vals =
            [col \in DOMAIN t[i].vals |->
                IF IsObjectColumn(t, col) THEN ToNumeric(t[i].vals[col])
                                          ELSE t[i].vals[col]]]]

RECURSIVE FfillFrom(_, _, _)
FfillFrom(t, i, last) ==
    IF i > Len(t) THEN <<>>
    ELSE LET cur == [col \in DOMAIN t[i].vals |->
                        IF t[i].vals[col] = NaN THEN last[col]
                                                ELSE t[i].vals[col]]
         IN <<[t[i] EXCEPT !.vals = cur]>> \o FfillFrom(t, i + 1, cur)

Reverse(s) == [i \in DOMAIN s |-> s[Len(s) + 1 - i]]

\* Variant: the fill runs backward (bfill), taking values from later rows.
Ffill_backward(t) ==
    IF t = <<>> THEN <<>>
    ELSE Reverse(FfillFrom(Reverse(t), 1, [col \in DOMAIN t[1].vals |-> NaN]))

\* Variant: the fill is left out.
Ffill_skipped(t) == t

\* df.ffill(): every missing cell takes the last valid value above it.
Ffill(t) ==
    IF t = <<>> THEN <<>>
    ELSE FfillFrom(t, 1, [col \in DOMAIN t[1].vals |-> NaN])

\* Calendar accessors of a DatetimeIndex whose entries are hours after
\* 2006-12-16 00:00 (a Saturday); NaT gives NaN.
HourOfDay(ts) == IF ts = NaT THEN NaN ELSE ts % 24
DayOfWeek(ts) == IF ts = NaT THEN NaN ELSE (5 + (ts \div 24)) % 7
Month(ts) == IF ts = NaT THEN NaN ELSE IF ts \div 24 < 16 THEN 12 ELSE 1
Year(ts) == IF ts = NaT THEN NaN ELSE IF ts \div 24 < 16 THEN 2006 ELSE 2007

AddCalendar(t) ==
    [i \in DOMAIN t |->
        [t[i] EXCEPT !.vals =
            [col \in DOMAIN t[i].vals \cup CalendarColumns |->
                CASE col = "hour_of_day" -> HourOfDay(t[i].datetime)
                  [] col = "day_of_week" -> DayOfWeek(t[i].datetime)
                  [] col = "month" -> Month(t[i].datetime)
                  [] col = "year" -> Year(t[i].datetime)
                  [] OTHER -> t[i].vals[col]]]]

\* The cleaned table: lines 21-33.
Cleaned(t) == AddCalendar(Ffill(CoerceColumns(t)))

----------------------------------------------------------------------------
(* create_lagged_features and preprocess_data lines 35-58 *)

LagName(col, lag) == col \o "_lag" \o ToString(lag)

\* df[cols]: the selected columns; "row" records the position of the row
\* in df so that later tables can be traced back to it.
SelectColumns(t, cols) ==
    [i \in DOMAIN t |->
        [datetime |-> t[i].datetime, row |-> i,
         vals |-> [col \in cols |-> t[i].vals[col]]]]

\* Variant: the columns are renamed but not shifted.
create_lagged_features_noshift(X, lag) ==
    [i \in DOMAIN X |->
        [X[i] EXCEPT !.vals =
            [name \in {LagName(col, lag) : col \in DOMAIN X[i].vals} |->
                LET col == CHOOSE c \in DOMAIN X[i].vals : LagName(c, lag) = name
                IN X[i].vals[col]]]]

\* df.shift(lag) followed by the renaming of the columns.
create_lagged_features(X, lag) ==
    [i \in DOMAIN X |->
        [X[i] EXCEPT !.vals =
            [name \in {LagName(col, lag) : col \in DOMAIN X[i].vals} |->
                LET col == CHOOSE c \in DOMAIN X[i].vals : LagName(c, lag) = name
                IN IF i - lag >= 1 /\ i - lag <= Len(X)
                   THEN X[i - lag].vals[col] ELSE NaN]]]

\* pd.concat([y, X_lagged], axis=1) of two frames over the same index.
ConcatColumns(y, X) ==
    [i \in DOMAIN y |->
        [y[i] EXCEPT !.vals =
            [name \in DOMAIN y[i].vals \cup DOMAIN X[i].vals |->
                IF name \in DOMAIN y[i].vals THEN y[i].vals[name]
                                             ELSE X[i].vals[name]]]]

HasNaN(r) == \E name \in DOMAIN r.vals : r.vals[name] = NaN

\* full_df.dropna(): the rows without a missing cell, in order.
RECURSIVE DropNa(_)
DropNa(t) ==
    IF t = <<>> THEN <<>>
    ELSE IF HasNaN(Head(t)) THEN DropNa(Tail(t))
         ELSE <<Head(t)>> \o DropNa(Tail(t))

\* full_df[[target]] and full_df.drop(columns=[target])
KeepColumns(t, cols) ==
    [i \in DOMAIN t |->
        [t[i] EXCEPT !.vals = [name \in cols \cap DOMAIN t[i].vals |-> t[i].vals[name]]]]
DropColumns(t, cols) ==
    [i \in DOMAIN t |->
        [t[i] EXCEPT !.vals = [name \in DOMAIN t[i].vals \ cols |-> t[i].vals[name]]]]

\* Variant: the target is taken after the shift, so it is lagged too.
FullDf_targetLagged(cleaned, p) ==
    LET y == SelectColumns(cleaned, {p.target_column})
        y_shifted == [i \in DOMAIN y |->
                        [y[i] EXCEPT !.vals =
                            IF i > 1 THEN y[i - 1].vals
                            ELSE [c \in DOMAIN y[i].vals |-> NaN]]]
        X == SelectColumns(cleaned, Range(p.features))
        X_lagged == create_lagged_features(X, 1)
    IN DropNa(ConcatColumns(y_shifted, X_lagged))

\* Lines 38-48: y and X are taken from df, X alone is lagged, both are
\* joined column-wise and the rows with a missing cell are dropped.
FullDf(cleaned, p) ==
    LET y == SelectColumns(cleaned, {p.target_column})
        X == SelectColumns(cleaned, Range(p.features))
        X_lagged == create_lagged_features(X, 1)
    IN DropNa(ConcatColumns(y, X_lagged))

\* int(len(full_df) * test_split_ratio) for a ratio num/den >= 0
TestSize(n, ratio) == (n * ratio[1]) \div ratio[2]

\* Variant: the train slice stops one row early.
TrainPart_offByOne(t, test_size) == ILocUpTo(t, -test_size - 1)

\* table.iloc[:-test_size] and table.iloc[-test_size:]
TrainPart(t, test_size) == ILocUpTo(t, -test_size)
TestPart(t, test_size) == ILocFrom(t, -test_size)

Absent == [exists |-> FALSE]

\* Lines 50-58: separate y and X again and cut both at the same place.
SplitPartitions(full, p) ==
    [exists |-> TRUE,
     X_train |-> TrainPart(DropColumns(full, {p.target_column}),
                           TestSize(Len(full), p.test_split_ratio)),
     X_test |-> TestPart(DropColumns(full, {p.target_column}),
                         TestSize(Len(full), p.test_split_ratio)),
     y_train |-> TrainPart(KeepColumns(full, {p.target_column}),
                           TestSize(Len(full), p.test_split_ratio)),
     y_test |-> TestPart(KeepColumns(full, {p.target_column}),
                         TestSize(Len(full), p.test_split_ratio))]

\* preprocess_data(input_path, output_dir, params), as one step.
PreprocessData ==
    /\ pc = "start"
    /\ df' = Cleaned(prepared)
    /\ full_df' = FullDf(df', params)
    /\ processed' = SplitPartitions(full_df', params)
    /\ pc' = "done"
    /\ UNCHANGED <<rawFile, loadOut, prepared, params, modelsDir, lastRun>>

----------------------------------------------------------------------------
(* load_raw_file and the __main__ block of preprocess.py *)

Malformed == -2       \* a Date/Time or datetime string that does not parse

\* The raw file: whether it exists, the extension of its path, its
\* delimiter, which datetime columns its header has, and its data rows.
RawRows == [date : Times \cup {Malformed}, vals : [RawColumns -> RawValues]]
RawTables == UNION {[1..n -> RawRows] : n \in 1..MaxRows}
Extensions == {".txt", ".csv"}
Layouts == {"Date+Time", "datetime", "none"}
RawFiles ==
    [exists : {FALSE}, ext : Extensions]
    \cup [exists : {TRUE}, ext : Extensions, sep : {";", ","},
          layout : Layouts, rows : RawTables]

\* pd.to_datetime(..., errors='coerce') on one entry
ToDatetime(d) == IF d = Malformed THEN NaT ELSE d

\* The columns pd.read_csv finds when it splits the header on sep: the
\* file's own columns when sep is the file's delimiter, and otherwise one
\* column whose name is the whole header line.
DatetimeColumns(layout) ==
    CASE layout = "Date+Time" -> {"Date", "Time"}
      [] layout = "datetime" -> {"datetime"}
      [] OTHER -> {}
ColumnsRead(file, sep) ==
    IF file.sep = sep THEN DatetimeColumns(file.layout) \cup RawColumns
    ELSE {"<header line>"}

\* The frame whose index comes from the parsed date column(s): lines 84-86,
\* 88-89 and 97 with 107-111 (an index read_csv left as strings is coerced).
IndexedByDate(file) ==
    [i \in DOMAIN file.rows |->
        [datetime |-> ToDatetime(file.rows[i].date), vals |-> file.rows[i].vals]]

\* The frame that keeps its RangeIndex, coerced by pd.to_datetime to the
\* instant (i - 1) ns after 1970-01-01: lines 91-95.  index = "range" marks
\* that reading of the datetime field.
IndexedByPosition(file, sep) ==
    [i \in DOMAIN file.rows |->
        [datetime |-> i - 1,
         vals |-> IF file.sep = sep THEN file.rows[i].vals
                  ELSE [c \in {"<header line>"} |-> NonNumeric]]]

Returned(table, index) ==
    [status |-> "returned", index_name |-> "datetime", index |-> index,
     table |-> table]
Raised(error) == [status |-> "raised", error |-> error]

\* Lines 78-97: the try block.
FirstAttempt(file) ==
    IF ~file.exists THEN Raised("FileNotFoundError")
    ELSE IF file.ext = ".txt"
    THEN IF {"Date", "Time"} \subseteq ColumnsRead(file, ";")
         THEN Returned(IndexedByDate(file), "dates")
         ELSE IF "datetime" \in ColumnsRead(file, ";")
         THEN Returned(IndexedByDate(file), "dates")
         ELSE Returned(IndexedByPosition(file, ";"), "range")
    ELSE IF "datetime" \in ColumnsRead(file, ",")
         THEN Returned(IndexedByDate(file), "dates")
         ELSE Raised("ValueError: Index datetime invalid")

\* pandas' python engine rejects the low_memory option with a ValueError
\* before it opens the file.
PythonEngineAcceptsLowMemory == FALSE

\* Lines 98-104: the except branch.  Nothing catches what it raises.
Fallback(file) ==
    IF ~PythonEngineAcceptsLowMemory
    THEN Raised("ValueError: The 'low_memory' option is not supported with the 'python' engine")
    ELSE IF ~file.exists THEN Raised("FileNotFoundError")
    ELSE IF file.layout = "Date+Time"
         THEN Returned(IndexedByDate(file), "dates")
         ELSE Returned(IndexedByPosition(file, file.sep), "range")

load_raw_file(file) ==
    IF FirstAttempt(file).status = "raised" THEN Fallback(file)
    ELSE FirstAttempt(file)

NotRun == [status |-> "none"]
NoTable == <<>>

\* raw_df = load_raw_file(input_file), line 126
LoadRawFile ==
    /\ loadOut = NotRun
    /\ loadOut' = load_raw_file(rawFile)
    /\ UNCHANGED <<rawFile, prepared, params, pc, df, full_df, processed,
                   modelsDir, lastRun>>

\* raw_df.to_csv(tmp_raw_path), lines 132-134
WritePrepared ==
    /\ loadOut.status = "returned"
    /\ prepared = NoTable
    /\ prepared' = loadOut.table
    /\ UNCHANGED <<rawFile, loadOut, params, pc, df, full_df, processed,
                   modelsDir, lastRun>>

----------------------------------------------------------------------------
(* train.py *)

SupportedModels == {"RandomForestRegressor", "XGBoostRegressor", "LightGBMRegressor"}
ModelNames == SupportedModels \cup {"LinearRegression"}

FileNameOf(name) == name \o ".joblib"
Entry(name) == [present |-> TRUE, has_params |-> TRUE, file_name |-> FileNameOf(name)]
NoEntry == [present |-> FALSE]
FileNames == {FileNameOf(name) : name \in ModelNames}

\* The models section of params.yaml: the supported models have their
\* entries; the unsupported name has none, one without 'params', one of its
\* own, or one whose file_name is the random forest's.
UnsupportedEntries ==
    { NoEntry,
      [present |-> TRUE, has_params |-> FALSE, file_name |-> FileNameOf("LinearRegression")],
      Entry("LinearRegression"),
      [Entry("LinearRegression") EXCEPT !.file_name = FileNameOf("RandomForestRegressor")] }
ModelsSections ==
    { [name \in ModelNames |->
          IF name = "LinearRegression" THEN e
          ELSE IF name = "LightGBMRegressor" THEN l
          ELSE Entry(name)] : e \in UnsupportedEntries, l \in {NoEntry, Entry("LightGBMRegressor")} }
DefaultModels == [name \in ModelNames |-> IF name \in SupportedModels THEN Entry(name) ELSE NoEntry]

\* Variant: an unknown name falls back to a default regressor.
get_model_instance_default(model_name) ==
    [ok |-> TRUE, model |-> model_name]

\* get_model_instance: the estimator for the three known names, ValueError
\* for every other name.
get_model_instance(model_name) ==
    IF model_name \in SupportedModels
    THEN [ok |-> TRUE, model |-> model_name]
    ELSE [ok |-> FALSE, error |-> "ValueError: Unsupported model type: " \o model_name]

\* What a run of the stage leaves behind for the properties: how it ended,
\* whether joblib.dump was reached, and models/ and the presence of the
\* train CSVs as they were when it started.
Run(name, outcome, error, dumped, before) ==
    [status |-> outcome, model_name |-> name, error |-> error,
     dumped |-> dumped, before |-> before, train_csv_found |-> processed.exists]

\* train_model(model_name, model_config, params); fit_ok is whether the
\* library's fit returns.
TrainModel(name, config, fit_ok) ==
    IF ~config.has_params
    THEN /\ lastRun' = Run(name, "raised", "KeyError: 'params'", FALSE, modelsDir)
         /\ modelsDir' = modelsDir
    ELSE IF ~processed.exists
    THEN /\ lastRun' = Run(name, "raised", "FileNotFoundError", FALSE, modelsDir)
         /\ modelsDir' = modelsDir
    ELSE IF ~get_model_instance(name).ok
    THEN /\ lastRun' = Run(name, "raised", get_model_instance(name).error, FALSE, modelsDir)
         /\ modelsDir' = modelsDir
    ELSE IF ~fit_ok
    THEN /\ lastRun' = Run(name, "raised", "fit failed", FALSE, modelsDir)
         /\ modelsDir' = modelsDir
    ELSE /\ lastRun' = Run(name, "finished", "", TRUE, modelsDir)
         /\ modelsDir' = [modelsDir EXCEPT ![config.file_name] =
                              get_model_instance(name).model]

\* python train.py --model-name <name>: lines 56-70.
TrainMain ==
    \E name \in ModelNames : \E fit_ok \in BOOLEAN :
        /\ IF params.models[name].present
           THEN TrainModel(name, params.models[name], fit_ok)
           ELSE /\ lastRun' = Run(name, "exit 1",
                                  "Model '" \o name \o "' not found in params.yaml",
                                  FALSE, modelsDir)
                /\ modelsDir' = modelsDir
        /\ UNCHANGED <<rawFile, loadOut, prepared, params, pc, df, full_df,
                       processed>>

----------------------------------------------------------------------------
(* Specifications *)

NoFile == [exists |-> FALSE, ext |-> ".txt"]
EmptyModelsDir == [f \in FileNames |-> ""]

\* The configurations: target and features name columns of df (any other
\* name raises KeyError at lines 39-40, before anything is written).
ParamChoices ==
    [target_column : TargetChoices, features : FeatureChoices,
     test_split_ratio : Ratios, models : {DefaultModels}]

\* The preprocessing stage on every prepared CSV and configuration.
Init ==
    /\ rawFile = NoFile
    /\ loadOut = NotRun
    /\ prepared \in PreparedTables
    /\ params \in ParamChoices
    /\ pc = "start"
    /\ df = <<>>
    /\ full_df = <<>>
    /\ processed = Absent
    /\ modelsDir = EmptyModelsDir
    /\ lastRun = NotRun

Next == PreprocessData

Spec == Init /\ [][Next]_vars

SampleParams ==
    [target_column |-> "Global_active_power",
     features |-> <<"Global_active_power", "hour_of_day">>,
     test_split_ratio |-> <<1, 4>>, models |-> DefaultModels]

\* The loader and the hand-over of its result, on every raw file.
InitLoad ==
    /\ rawFile \in RawFiles
    /\ loadOut = NotRun
    /\ prepared = NoTable
    /\ params = SampleParams
    /\ pc = "start"
    /\ df = <<>>
    /\ full_df = <<>>
    /\ processed = Absent
    /\ modelsDir = EmptyModelsDir
    /\ lastRun = NotRun

NextLoad == LoadRawFile \/ WritePrepared

SpecLoad == InitLoad /\ [][NextLoad]_vars

SampleTable ==
    [i \in 1..3 |-> [datetime |-> i, vals |-> [c \in RawColumns |-> 1]]]

\* The training stage, run any number of times before or after the
\* preprocessing stage has written data/processed.
InitTrain ==
    /\ rawFile = NoFile
    /\ loadOut = NotRun
    /\ prepared = SampleTable
    /\ params \in {[SampleParams EXCEPT !.models = m] : m \in ModelsSections}
    /\ pc = "start"
    /\ df = <<>>
    /\ full_df = <<>>
    /\ processed = Absent
    /\ modelsDir = EmptyModelsDir
    /\ lastRun = NotRun

NextTrain == PreprocessData \/ TrainMain

SpecTrain == InitTrain /\ [][NextTrain]_vars

----------------------------------------------------------------------------
(* Properties of preprocess_data *)

Done == pc = "done"
Features == Range(params.features)
Target == params.target_column
RowIds(t) == [i \in DOMAIN t |-> t[i].row]
IndexOf(t) == [i \in DOMAIN t |-> t[i].datetime]
XRows == Range(processed.X_train) \cup Range(processed.X_test)
YRows == Range(processed.y_train) \cup Range(processed.y_test)
RatioInUnitInterval ==
    /\ 0 < params.test_split_ratio[1]
    /\ params.test_split_ratio[1] < params.test_split_ratio[2]
\* floor(n * ratio), computed without the code's slicing
FloorOfProduct ==
    CHOOSE k \in 0..Len(full_df) :
        /\ k * params.test_split_ratio[2] <= Len(full_df) * params.test_split_ratio[1]
        /\ (k + 1) * params.test_split_ratio[2] > Len(full_df) * params.test_split_ratio[1]
ValidIndex(t) == \A i \in DOMAIN t : t[i].datetime # NaT
\* a > b on timestamps; any comparison with NaT is false
Later(a, b) == a # NaT /\ b # NaT /\ a > b
StrictlyIncreasing(t) ==
    \A i \in DOMAIN t : \A j \in DOMAIN t : i < j => Later(t[j].datetime, t[i].datetime)

\* C1: for a ratio in (0,1) the test partition has exactly floor(n * ratio)
\* rows, they are the last rows of the post-dropna table, and the train
\* partition is all the rows before them -- also when floor(n * ratio) = 0.
C1_TestPartitionIsLastFloorRows ==
    (Done /\ RatioInUnitInterval) =>
        LET n == Len(full_df)
            k == FloorOfProduct
        IN /\ Len(processed.X_test) = k
           /\ Len(processed.y_test) = k
           /\ RowIds(processed.X_test) = [i \in 1..k |-> full_df[n - k + i].row]
           /\ RowIds(processed.y_test) = [i \in 1..k |-> full_df[n - k + i].row]
           /\ RowIds(processed.X_train) = [i \in 1..(n - k) |-> full_df[i].row]
           /\ RowIds(processed.y_train) = [i \in 1..(n - k) |-> full_df[i].row]

\* C2: every timestamp of the test partition is later than every timestamp
\* of the train partition, whatever the row order of the prepared CSV
\* (rows whose index entry is NaT carry no timestamp and are not compared).
C2_TestLaterThanTrain ==
    Done =>
        \A a \in Range(processed.X_test) \cup Range(processed.y_test) :
            \A b \in Range(processed.X_train) \cup Range(processed.y_train) :
                (a.datetime # NaT /\ b.datetime # NaT) => a.datetime > b.datetime

\* C3: when every index entry of the input is a valid datetime, the index of
\* the cleaned table, of the lagged table and of the four partitions is
\* strictly increasing (sorted, no repeated timestamp).
C3_IndexStrictlyIncreasing ==
    (Done /\ ValidIndex(prepared)) =>
        /\ StrictlyIncreasing(df)
        /\ StrictlyIncreasing(full_df)
        /\ StrictlyIncreasing(processed.X_train)
        /\ StrictlyIncreasing(processed.X_test)
        /\ StrictlyIncreasing(processed.y_train)
        /\ StrictlyIncreasing(processed.y_test)

\* C4: in every retained feature row, each column f_lag1 holds the cleaned
\* value of f at the row just before it in the cleaned table.
C4_LagIsPreviousCleanedRow ==
    Done =>
        \A r \in XRows : \A f \in Features :
            /\ r.row > 1
            /\ r.vals[LagName(f, 1)] = df[r.row - 1].vals[f]

\* C4 witness: a retained feature row whose predecessor in the cleaned table
\* was removed by dropna, and whose own value differs from the lagged one.
C4_Witness ==
    /\ Done
    /\ \E r \in XRows : \E f \in Features :
        /\ r.row > 2
        /\ \A q \in Range(full_df) : q.row # r.row - 1
        /\ df[r.row].vals[f] # df[r.row - 1].vals[f]

\* C5: every retained target value is the cleaned target value of the same
\* row (lag 0), also when the target is one of the configured features.
C5_TargetNeverShifted ==
    Done =>
        \A r \in YRows :
            /\ DOMAIN r.vals = {Target}
            /\ r.vals[Target] = df[r.row].vals[Target]
            /\ r.datetime = df[r.row].datetime

\* C5 witness: the target is also a feature, and a retained row's target
\* differs from the previous row's, which is what its lag column shows.
C5_Witness ==
    /\ Done
    /\ Target \in Features
    /\ \E r \in YRows :
        /\ r.row > 1
        /\ df[r.row].vals[Target] # df[r.row - 1].vals[Target]
        /\ \E x \in XRows :
            /\ x.row = r.row
            /\ x.vals[LagName(Target, 1)] = df[r.row - 1].vals[Target]

ValidCell(v) == v # NaN /\ v # NonNumeric
EarlierValid(t, i, col) == {j \in 1..(i - 1) : ValidCell(t[j].vals[col])}
NearestEarlierValid(t, i, col) ==
    CHOOSE j \in EarlierValid(t, i, col) : \A k \in EarlierValid(t, i, col) : k <= j

\* C8: after cleaning, a cell that was valid is unchanged, a cell that was
\* missing or non-numeric holds the nearest earlier valid value of its
\* column, and stays missing when no earlier row has one.
C8_FillIsCausal ==
    Done =>
        \A i \in DOMAIN prepared : \A col \in RawColumns :
            IF ValidCell(prepared[i].vals[col])
            THEN df[i].vals[col] = prepared[i].vals[col]
            ELSE IF EarlierValid(prepared, i, col) # {}
                 THEN df[i].vals[col] =
                        prepared[NearestEarlierValid(prepared, i, col)].vals[col]
                 ELSE df[i].vals[col] = NaN

\* C8 witness: a missing cell and a non-numeric cell lie between two valid
\* cells holding different values.
C8_Witness ==
    /\ Done
    /\ \E col \in RawColumns : \E i \in DOMAIN prepared :
        /\ i > 1 /\ i < Len(prepared)
        /\ ~ValidCell(prepared[i].vals[col])
        /\ ValidCell(prepared[i - 1].vals[col])
        /\ ValidCell(prepared[i + 1].vals[col])
        /\ prepared[i - 1].vals[col] # prepared[i + 1].vals[col]
        /\ df[i].vals[col] = prepared[i - 1].vals[col]

\* C9: train and test are disjoint, train followed by test is the
\* post-dropna table row for row, and X and y have the same rows.
C9_PartitionsReassembleAndAlign ==
    Done =>
        /\ Range(RowIds(processed.X_train)) \cap Range(RowIds(processed.X_test)) = {}
        /\ ConcatColumns(processed.y_train \o processed.y_test,
                         processed.X_train \o processed.X_test) = full_df
        /\ Len(processed.X_train) + Len(processed.X_test) = Len(full_df)
        /\ RowIds(processed.X_train) = RowIds(processed.y_train)
        /\ RowIds(processed.X_test) = RowIds(processed.y_test)
        /\ IndexOf(processed.X_train) = IndexOf(processed.y_train)
        /\ IndexOf(processed.X_test) = IndexOf(processed.y_test)

\* C9 witness: the degenerate split with test_size = 0 on a table of two or
\* more rows.
C9_Witness ==
    /\ Done
    /\ Len(full_df) >= 2
    /\ TestSize(Len(full_df), params.test_split_ratio) = 0

\* C10: with a valid index and at least one feature, dropna removes a
\* leading run of rows that includes the first row; the retained rows are
\* the rest, contiguous, and none of them has a missing cell.
C10_DroppedRowsAreLeadingPrefix ==
    (Done /\ ValidIndex(prepared) /\ Features # {}) =>
        /\ \E k \in 1..Len(df) :
              RowIds(full_df) = [i \in 1..(Len(df) - k) |-> k + i]
        /\ \A r \in Range(full_df) : ~HasNaN(r)

\* C10 witness: two leading rows are dropped and a row is retained.
C10_Witness ==
    /\ Done /\ ValidIndex(prepared) /\ Features # {}
    /\ Len(full_df) >= 1
    /\ full_df[1].row >= 3

----------------------------------------------------------------------------
(* Properties of the training stage *)

UnsupportedRun == lastRun.status # "none" /\ lastRun.model_name \notin SupportedModels
UnsupportedTypeError(name) == "ValueError: Unsupported model type: " \o name

\* C6 as stated: every run with an unsupported name fails with the
\* "Unsupported model type" error and writes no model file, whether or not
\* the name has an entry in the models section.
C6_UnsupportedNameRaisesUnsupportedType ==
    UnsupportedRun =>
        /\ lastRun.status = "raised"
        /\ lastRun.error = UnsupportedTypeError(lastRun.model_name)
        /\ modelsDir = lastRun.before

\* C6 amended: a run with an unsupported name never reaches joblib.dump and
\* leaves models/ as it was.  It fails with the "Unsupported model type"
\* ValueError when the name has an entry with params and the train CSVs are
\* there; without an entry it logs "not found in params.yaml" and exits 1;
\* otherwise the earlier KeyError or FileNotFoundError is what it raises.
C6_UnsupportedNameWritesNoModel ==
    UnsupportedRun =>
        LET entry == params.models[lastRun.model_name]
        IN /\ ~lastRun.dumped
           /\ modelsDir = lastRun.before
           /\ \A f \in FileNames : modelsDir[f] \notin ModelNames \ SupportedModels
           /\ IF ~entry.present
              THEN /\ lastRun.status = "exit 1"
                   /\ lastRun.error = "Model '" \o lastRun.model_name
                                        \o "' not found in params.yaml"
              ELSE /\ lastRun.status = "raised"
                   /\ IF ~entry.has_params
                      THEN lastRun.error = "KeyError: 'params'"
                      ELSE IF ~lastRun.train_csv_found
                      THEN lastRun.error = "FileNotFoundError"
                      ELSE lastRun.error = UnsupportedTypeError(lastRun.model_name)

\* C6 witness: the unsupported name has an entry whose file_name is that of
\* an already trained model, and the run raised the unsupported-type error.
C6_Witness ==
    /\ UnsupportedRun
    /\ params.models[lastRun.model_name].present
    /\ modelsDir[params.models[lastRun.model_name].file_name] \in SupportedModels
    /\ lastRun.error = UnsupportedTypeError(lastRun.model_name)

----------------------------------------------------------------------------
(* Properties of load_raw_file *)

\* C7: load_raw_file never raises: for every path and content, the first
\* attempt or the fallback returns a table whose index is named "datetime".
C7_LoadNeverRaises ==
    loadOut.status # "none" =>
        /\ loadOut.status = "returned"
        /\ loadOut.index_name = "datetime"

====
